---- MODULE Spec2Model ----
(***************************************************************************)
(* A model of package retry (src/retry.go): the retry loop run(), the      *)
(* attempt context R, the Timer policy, and the helpers decorate and       *)
(* dedup.                                                                  *)
(*                                                                         *)
(* Strings are sequences of one-character strings, so that concatenation,  *)
(* slicing and formatting are computed and not assumed.  Time is an        *)
(* integer number of milliseconds; the zero time.Time is 0 and the clock   *)
(* starts at 1.                                                            *)
(***************************************************************************)
EXTENDS Integers, Sequences, FiniteSets, TLC

\* ---------------------------------------------------------------- bounds
\* Largest Timer.Timeout / Timer.Wait handed to RunWith.
MaxTimeout == 2
MaxWait == 2
\* time.Sleep(d) pauses for at least d: the largest overshoot of one sleep.
MaxOver == 1
\* An attempt may take time (Tick) while the clock is below MaxNow.
MaxNow == 5
\* The check function records a line only while fewer than MaxOut are held.
MaxOut == 2
\* Statements one attempt of the check function executes at most.
MaxOps == 2
\* Lines handed to dedup in SpecDedup.
MaxLines == 5

\* ------------------------------------------------------------- constants
Millisecond == 1
Second == 1000 * Millisecond
DefaultTimeout == 2 * Second
DefaultWait == 25 * Millisecond
\* The Timer of TestRunWithFail and TestRunWithPass.
TestTimeout == 1 * Second
TestWait == 100 * Millisecond

\* --------------------------------------------------------------- strings
NL == <<"\n">>

RECURSIVE Itoa(_)
\* fmt's %d of a non-negative int.
Itoa(n) ==
    LET d == <<"0", "1", "2", "3", "4", "5", "6", "7", "8", "9">>
    IN  IF n < 10 THEN <<d[n + 1]>> ELSE Itoa(n \div 10) \o <<d[(n % 10) + 1]>>

\* strings.LastIndex(s, c) for a one-character c, as a 1-based position
\* (0 when c does not occur; Go's -1).
LastIndex(s, c) ==
    LET at == {i \in 1..Len(s) : s[i] = c}
    IN  IF at = {} THEN 0 ELSE CHOOSE i \in at : \A j \in at : j <= i

\* decorate(s), given what runtime.Caller(3) returned.
decorate(s, caller) ==
    LET n == LastIndex(caller.file, "/")
        file == IF caller.ok
                THEN (IF n >= 1 THEN SubSeq(caller.file, n + 1, Len(caller.file))
                      ELSE caller.file)
                ELSE <<"?", "?", "?">>
        line == IF caller.ok THEN caller.line ELSE 1
    IN  file \o <<":">> \o Itoa(line) \o <<":", " ">> \o s

\* The loops of dedup are folded over a[lo..hi] by halves, the first half
\* evaluated before the second is entered: the iterations run in the order
\* of the code, and a log of a hundred lines is evaluated a few levels deep.

RECURSIVE CountMap(_, _, _, _)
\* The first loop of dedup over a[lo..hi], from map m: m[s] = m[s] + 1.
CountMap(a, lo, hi, m) ==
    IF lo > hi THEN m
    ELSE IF lo = hi
         THEN LET s == a[lo]
                  c == IF s \in DOMAIN m THEN m[s] ELSE 0
              IN  (s :> c + 1) @@ m
         ELSE LET mid == (lo + hi) \div 2
                  first == CountMap(a, lo, mid, m)
              IN  IF first = first THEN CountMap(a, mid + 1, hi, first) ELSE first

RECURSIVE dedupEmitAll(_, _, _, _)
\* The second loop of dedup without the test of m and the delete.
dedupEmitAll(a, lo, hi, st) ==
    IF lo > hi THEN st
    ELSE IF lo = hi
         THEN [m |-> st.m, b |-> st.b \o a[lo] \o NL]
         ELSE LET mid == (lo + hi) \div 2
                  first == dedupEmitAll(a, lo, mid, st)
              IN  IF first = first THEN dedupEmitAll(a, mid + 1, hi, first) ELSE first

RECURSIVE dedupEmit(_, _, _, _)
\* The second loop of dedup over a[lo..hi], from the map st.m and the buffer
\* st.b: write each s still in m, then delete it from m.
dedupEmit(a, lo, hi, st) ==
    IF lo > hi THEN st
    ELSE IF lo = hi
         THEN LET s == a[lo]
              IN  IF s \in DOMAIN st.m
                  THEN [m |-> [k \in (DOMAIN st.m) \ {s} |-> st.m[k]],
                        b |-> st.b \o s \o NL]
                  ELSE st
         ELSE LET mid == (lo + hi) \div 2
                  first == dedupEmit(a, lo, mid, st)
              IN  IF first = first THEN dedupEmit(a, mid + 1, hi, first) ELSE first

\* dedup with the delete(m, s) left out: every line is written.
dedupNoDelete(a) ==
    IF Len(a) = 0 THEN <<>>
    ELSE dedupEmitAll(a, 1, Len(a),
                      [m |-> CountMap(a, 1, Len(a), <<>>), b |-> <<>>]).b

dedup(a) ==
    IF Len(a) = 0 THEN <<>>
    ELSE dedupEmit(a, 1, Len(a),
                   [m |-> CountMap(a, 1, Len(a), <<>>), b |-> <<>>]).b

\* ----------------------------------------------------------------- state
VARIABLES
    now,        \* time.Now(), in milliseconds
    timer,      \* the *Timer given to RunWith: Timeout, Wait, stop
    rr,         \* the *R of this run: fail, output
    pc,         \* where run() is: "Next", "Go", "Wait", "Succeeded", "GaveUp"
    wg,         \* the sync.WaitGroup counter of the current iteration
    g,          \* the attempt's goroutine: state, the number of statements
                \* of f it ran, and the last of them
    tcalls,     \* the calls made on the reporter t, in order
    calls,      \* how many times the check function f was invoked
    ends,       \* the ways the attempts of this run ended so far
    f           \* the check function: "any" (its statements are chosen as it
                \* runs), "fatalf" (the tests' *calls++; r.Fatalf("fail")) or
                \* "pass" (the tests' *calls++)

vars == <<now, timer, rr, pc, wg, g, tcalls, calls, ends, f>>

\* What the check function may record, and from where it calls R's methods.
Msgs == {<<"a">>, <<"b">>}
Callers == {[ok |-> TRUE, file |-> <<"x", "/", "t">>, line |-> 12],
            [ok |-> FALSE, file |-> <<>>, line |-> 0]}
NilErr == [isNil |-> TRUE, msg |-> <<>>]
Errs == {NilErr} \cup {[isNil |-> FALSE, msg |-> m] : m \in Msgs}
NoGoroutine == [state |-> "none", n |-> 0, last |-> "none"]

\* r.Fatalf("fail") of the tests, and its call site.
FailMsg == <<"f", "a", "i", "l">>
FailCaller == [ok |-> TRUE, file |-> <<"r", "/", "r", "_", "t">>, line |-> 19]

Timers == {[Timeout |-> T, Wait |-> W, stop |-> 0] :
               T \in 0..MaxTimeout, W \in 1..MaxWait}
               \cup {[Timeout |-> TestTimeout, Wait |-> TestWait, stop |-> 0]}

\* rr := &R{} and the state before the first r.Next.
InitRest ==
    /\ now = 1
    /\ rr = [fail |-> FALSE, output |-> <<>>]
    /\ pc = "Next"
    /\ wg = 0
    /\ g = NoGoroutine
    /\ tcalls = <<>>
    /\ calls = 0
    /\ ends = {}

\* The check functions handed to a run with Timer tm: the two of the tests
\* with any Timer, and an arbitrary one with the Timers up to MaxTimeout.
CheckFns(tm) ==
    {"fatalf", "pass"} \cup (IF tm.Timeout <= MaxTimeout THEN {"any"} ELSE {})

\* Run(t, f): RunWith with the default Timer.
Run ==
    /\ timer = [Timeout |-> DefaultTimeout, Wait |-> DefaultWait, stop |-> 0]
    /\ f \in CheckFns(timer)
    /\ InitRest

\* RunWith(t, r, f) with a fresh Timer.
RunWith ==
    /\ timer \in Timers
    /\ f \in CheckFns(timer)
    /\ InitRest

Init == Run \/ RunWith

\* -------------------------------------------------------------- reporter
\* fail without the `if out != ""`: Log is called with an empty text too.
failLogsAlways(tc, r) ==
    Append(Append(tc, [op |-> "Log", arg |-> dedup(r.output)]),
           [op |-> "FailNow", arg |-> <<>>])

\* The give-up callback of run(): Log the deduplicated output if there is
\* any, then FailNow.
fail(tc, r) ==
    LET out == dedup(r.output)
        logged == IF out # <<>> THEN Append(tc, [op |-> "Log", arg |-> out])
                  ELSE tc
    IN  Append(logged, [op |-> "FailNow", arg |-> <<>>])

\* ---------------------------------------------------------------- policy
\* run() is at `for r.Next(fail)`.
AtNext == pc = "Next"

\* Timer.Next that sets the deadline and goes on to test it (with
\* !Before in place of After) instead of returning true.
NextFirstChecksDeadline ==
    /\ AtNext
    /\ timer.stop = 0
    /\ timer' = [timer EXCEPT !.stop = now + timer.Timeout]
    /\ IF now >= now + timer.Timeout
       THEN pc' = "GaveUp" /\ tcalls' = fail(tcalls, rr)
       ELSE pc' = "Go" /\ tcalls' = tcalls
    /\ UNCHANGED <<now, rr, wg, g, calls, ends, f>>

\* Timer.Next, first call: set the deadline, return true.
NextFirst ==
    /\ AtNext
    /\ timer.stop = 0
    /\ timer' = [timer EXCEPT !.stop = now + timer.Timeout]
    /\ pc' = "Go"
    /\ UNCHANGED <<now, tcalls, rr, wg, g, calls, ends, f>>

\* Timer.Next with the time.Sleep ahead of the deadline test.
NextGiveUpAfterSleep ==
    /\ AtNext
    /\ timer.stop # 0
    /\ now > timer.stop
    /\ now' = now + timer.Wait
    /\ tcalls' = fail(tcalls, rr)
    /\ pc' = "GaveUp"
    /\ UNCHANGED <<timer, rr, wg, g, calls, ends, f>>

\* Timer.Next past the deadline in a run() that goes on with an attempt
\* whatever Next returned.
NextGiveUpIgnored ==
    /\ AtNext
    /\ timer.stop # 0
    /\ now > timer.stop
    /\ tcalls' = fail(tcalls, rr)
    /\ pc' = "Go"
    /\ UNCHANGED <<now, timer, rr, wg, g, calls, ends, f>>

\* Timer.Next that gives up at the deadline already (!Before for After).
NextGiveUpAtDeadline ==
    /\ AtNext
    /\ timer.stop # 0
    /\ now >= timer.stop
    /\ tcalls' = fail(tcalls, rr)
    /\ pc' = "GaveUp"
    /\ UNCHANGED <<now, timer, rr, wg, g, calls, ends, f>>

\* Timer.Next past the deadline with a fail closure that empties rr.output
\* once it has reported it.
NextGiveUpClearsLog ==
    /\ AtNext
    /\ timer.stop # 0
    /\ now > timer.stop
    /\ tcalls' = fail(tcalls, rr)
    /\ rr' = [rr EXCEPT !.output = <<>>]
    /\ pc' = "GaveUp"
    /\ UNCHANGED <<now, timer, wg, g, calls, ends, f>>

\* Timer.Next, past the deadline: fail(), return false.
NextGiveUp ==
    /\ AtNext
    /\ timer.stop # 0
    /\ now > timer.stop
    /\ tcalls' = fail(tcalls, rr)
    /\ pc' = "GaveUp"
    /\ UNCHANGED <<now, timer, rr, wg, g, calls, ends, f>>

\* Timer.Next that returns true without the time.Sleep.
NextSleepNoWait ==
    /\ AtNext
    /\ timer.stop # 0
    /\ ~(now > timer.stop)
    /\ pc' = "Go"
    /\ UNCHANGED <<now, timer, tcalls, rr, wg, g, calls, ends, f>>

\* Timer.Next that still sleeps and returns true up to Wait past the deadline.
NextSleepPastDeadline ==
    /\ AtNext
    /\ timer.stop # 0
    /\ ~(now > timer.stop + timer.Wait)
    /\ \E over \in 0..MaxOver : now' = now + timer.Wait + over
    /\ pc' = "Go"
    /\ UNCHANGED <<timer, tcalls, rr, wg, g, calls, ends, f>>

\* Timer.Next with time.Sleep(r.Wait / 2).
NextSleepHalfWait ==
    /\ AtNext
    /\ timer.stop # 0
    /\ ~(now > timer.stop)
    /\ \E over \in 0..MaxOver : now' = now + (timer.Wait \div 2) + over
    /\ pc' = "Go"
    /\ UNCHANGED <<timer, tcalls, rr, wg, g, calls, ends, f>>

\* Timer.Next, otherwise: time.Sleep(Wait), return true.
NextSleep ==
    /\ AtNext
    /\ timer.stop # 0
    /\ ~(now > timer.stop)
    /\ \E over \in 0..MaxOver : now' = now + timer.Wait + over
    /\ pc' = "Go"
    /\ UNCHANGED <<timer, tcalls, rr, wg, g, calls, ends, f>>

\* ------------------------------------------------------------------ loop
\* wg.Add(1); go func() { defer wg.Done(); f(rr) }()
Spawn ==
    /\ pc = "Go"
    /\ wg' = wg + 1
    /\ g' = [state |-> "running", n |-> 0, last |-> "none"]
    /\ calls' = calls + 1
    /\ pc' = "Wait"
    /\ UNCHANGED <<now, timer, rr, tcalls, ends, f>>

\* run() without the wg.Wait().
WgNoWait == TRUE

\* wg.Wait() returns once the counter is zero.
WgWait == wg = 0

\* run() that abandons the run as soon as one attempt has failed.
RetryGivesUp ==
    /\ pc = "Wait"
    /\ WgWait
    /\ rr.fail
    /\ rr' = [rr EXCEPT !.fail = FALSE]
    /\ tcalls' = fail(tcalls, rr)
    /\ pc' = "GaveUp"
    /\ g' = NoGoroutine
    /\ UNCHANGED <<now, timer, wg, calls, ends, f>>

\* run() that makes a new R for every attempt.
RetryResetsContext ==
    /\ pc = "Wait"
    /\ WgWait
    /\ rr.fail
    /\ rr' = [fail |-> FALSE, output |-> <<>>]
    /\ pc' = "Next"
    /\ g' = NoGoroutine
    /\ UNCHANGED <<now, timer, wg, tcalls, calls, ends, f>>

\* run() that retries without rr.fail = false.
RetryKeepsFlag ==
    /\ pc = "Wait"
    /\ WgWait
    /\ rr.fail
    /\ pc' = "Next"
    /\ g' = NoGoroutine
    /\ UNCHANGED <<now, timer, rr, wg, tcalls, calls, ends, f>>

\* if rr.fail { rr.fail = false; continue }
Retry ==
    /\ pc = "Wait"
    /\ WgWait
    /\ rr.fail
    /\ rr' = [rr EXCEPT !.fail = FALSE]
    /\ pc' = "Next"
    /\ g' = NoGoroutine
    /\ UNCHANGED <<now, timer, wg, tcalls, calls, ends, f>>

\* run() with `continue` in place of the final `break`.
SucceedContinues ==
    /\ pc = "Wait"
    /\ WgWait
    /\ ~rr.fail
    /\ pc' = "Next"
    /\ g' = NoGoroutine
    /\ UNCHANGED <<now, timer, rr, wg, tcalls, calls, ends, f>>

\* run() that looks at the deadline after a passed attempt.
SucceedUnlessLate ==
    /\ pc = "Wait"
    /\ WgWait
    /\ ~rr.fail
    /\ IF now > timer.stop
       THEN pc' = "GaveUp" /\ tcalls' = fail(tcalls, rr)
       ELSE pc' = "Succeeded" /\ tcalls' = tcalls
    /\ UNCHANGED <<now, timer, rr, wg, g, calls, ends, f>>

\* break
Succeed ==
    /\ pc = "Wait"
    /\ WgWait
    /\ ~rr.fail
    /\ pc' = "Succeeded"
    /\ UNCHANGED <<now, timer, rr, wg, g, tcalls, calls, ends, f>>

\* --------------------------------------------------------------- attempt
\* The arbitrary check function executes one more statement.
Running == f = "any" /\ g.state = "running" /\ g.n < MaxOps
\* The check function records message m from call site c.
Records(m, c) ==
    \/ Running /\ m \in Msgs /\ c \in Callers /\ Len(rr.output) < MaxOut
    \/ f = "fatalf" /\ g.state = "running" /\ m = FailMsg /\ c = FailCaller

\* R.log
log(r, s, caller) == [r EXCEPT !.output = Append(@, decorate(s, caller))]

\* R.FailNow without the runtime.Goexit: the flag is set and f goes on.
FailNowNoGoexit(r, kind) ==
    /\ rr' = [r EXCEPT !.fail = TRUE]
    /\ g' = [state |-> "running", n |-> g.n + 1, last |-> kind]
    /\ UNCHANGED <<wg, ends>>

\* R.FailNow on context r, called (directly or not) by statement `kind`:
\* set fail, then runtime.Goexit, which runs the deferred wg.Done().
FailNow(r, kind) ==
    /\ rr' = [r EXCEPT !.fail = TRUE]
    /\ g' = [state |-> "exited", n |-> g.n + 1, last |-> kind]
    /\ wg' = wg - 1
    /\ ends' = ends \cup {"abort"}

\* A statement of f that goes on: g stays running.
GoesOn(kind) ==
    /\ g' = [state |-> "running", n |-> g.n + 1, last |-> kind]
    /\ UNCHANGED <<wg, ends, f>>

Fatal(m, c) ==
    /\ Running /\ Records(m, c)
    /\ FailNow(log(rr, m, c), "Fatal")
    /\ UNCHANGED <<now, timer, pc, tcalls, calls, f>>

Fatalf(m, c) ==
    /\ Records(m, c)
    /\ FailNow(log(rr, m, c), "Fatalf")
    /\ UNCHANGED <<now, timer, pc, tcalls, calls, f>>

\* R.Error that ends in r.FailNow(), as Fatal does.
ErrorAborts(m, c) ==
    /\ Running /\ Records(m, c)
    /\ FailNow(log(rr, m, c), "Error")
    /\ UNCHANGED <<now, timer, pc, tcalls, calls, f>>

Error(m, c) ==
    /\ Running /\ Records(m, c)
    /\ rr' = [log(rr, m, c) EXCEPT !.fail = TRUE]
    /\ GoesOn("Error")
    /\ UNCHANGED <<now, timer, pc, tcalls, calls, f>>

\* R.Check that records the error as R.Error does, without r.FailNow().
CheckSoft(err, c) ==
    /\ Running
    /\ IF ~err.isNil
       THEN /\ Records(err.msg, c)
            /\ rr' = [log(rr, err.msg, c) EXCEPT !.fail = TRUE]
            /\ GoesOn("CheckErr")
       ELSE rr' = rr /\ GoesOn("CheckNil")
    /\ UNCHANGED <<now, timer, pc, tcalls, calls, f>>

Check(err, c) ==
    /\ Running
    /\ IF ~err.isNil
       THEN Records(err.msg, c) /\ FailNow(log(rr, err.msg, c), "CheckErr")
       ELSE rr' = rr /\ GoesOn("CheckNil")
    /\ UNCHANGED <<now, timer, pc, tcalls, calls, f>>

\* f calls r.FailNow() itself.
DirectFailNow ==
    /\ Running
    /\ FailNow(rr, "FailNow")
    /\ UNCHANGED <<now, timer, pc, tcalls, calls, f>>

\* A statement of f that does not touch r.
Stmt ==
    /\ Running \/ (f = "pass" /\ g.state = "running" /\ g.n = 0)
    /\ GoesOn("Stmt")
    /\ UNCHANGED <<now, timer, rr, pc, tcalls, calls, f>>

\* f returns; the deferred wg.Done() runs.
Return ==
    /\ f = "any" \/ (f = "pass" /\ g.n = 1)
    /\ g.state = "running"
    /\ g' = [g EXCEPT !.state = "returned"]
    /\ wg' = wg - 1
    /\ ends' = ends \cup {IF rr.fail THEN "soft" ELSE "clean"}
    /\ UNCHANGED <<now, timer, rr, pc, tcalls, calls, f>>

\* Time passes while the attempt runs.
Tick ==
    /\ g.state = "running"
    /\ now < MaxNow
    /\ now' = now + 1
    /\ UNCHANGED <<timer, rr, pc, wg, g, tcalls, calls, ends, f>>

Attempt ==
    \/ \E m \in Msgs, c \in Callers : Fatal(m, c) \/ Error(m, c)
    \/ \E m \in Msgs \cup {FailMsg}, c \in Callers \cup {FailCaller} : Fatalf(m, c)
    \/ \E e \in Errs, c \in Callers : Check(e, c)
    \/ DirectFailNow
    \/ Stmt
    \/ Return

Next == NextFirst \/ NextGiveUp \/ NextSleep \/ Spawn \/ Retry \/ Succeed \/ Attempt \/ Tick

Spec == Init /\ [][Next]_vars

\* A pure-function harness for dedup: the run is about to give up with any
\* log of at most MaxLines decorated lines, and gives up.
DedupLines == {decorate(m, [ok |-> TRUE, file |-> <<"t">>, line |-> 7]) :
                   m \in {<<"a">>, <<"b">>, <<"c">>}}

RECURSIVE SeqsUpTo(_, _)
SeqsUpTo(S, n) ==
    IF n = 0 THEN {<<>>}
    ELSE LET shorter == SeqsUpTo(S, n - 1)
         IN  shorter \cup {Append(q, x) : q \in {r \in shorter : Len(r) = n - 1},
                                           x \in S}

InitDedup ==
    /\ now = 3
    /\ timer = [Timeout |-> 1, Wait |-> 1, stop |-> 2]
    /\ rr \in {[fail |-> FALSE, output |-> o] : o \in SeqsUpTo(DedupLines, MaxLines)}
    /\ pc = "Next"
    /\ wg = 0
    /\ g = NoGoroutine
    /\ tcalls = <<>>
    /\ calls = 1
    /\ ends = {IF rr.output = <<>> THEN "abort" ELSE "soft"}
    /\ f = "any"

SpecDedup == InitDedup /\ [][NextGiveUp]_vars

\* ---------------------------------------------------------------- claims
FailNows(tc) == Cardinality({i \in 1..Len(tc) : tc[i].op = "FailNow"})
Logs(tc) == Cardinality({i \in 1..Len(tc) : tc[i].op = "Log"})

\* No attempt of this run has signalled failure so far.
NeverSignalled == ends \subseteq {"clean"} /\ ~rr.fail

\* C1: with a check function that never signals failure, the check
\* function is invoked exactly once, the run ends in Succeeded, and the
\* reporter's FailNow (and Log) is never called.
C1_PassRunsOnce ==
    NeverSignalled =>
        /\ calls <= 1
        /\ tcalls = <<>>
        /\ pc # "GaveUp"
        /\ (pc = "Succeeded" => calls = 1)
        /\ (pc # "Succeeded" => ENABLED Next)

C1_Witness ==
    /\ pc = "Succeeded"
    /\ ends = {"clean"}
    /\ calls = 1
    /\ g.n >= 1
    /\ timer.Timeout = DefaultTimeout

\* All attempts so far ended with an abrupt failure.
AlwaysAbrupt == ends = {"abort"}
GaveUpAlwaysAbrupt == pc = "GaveUp" /\ AlwaysAbrupt
Quotient == timer.Timeout \div timer.Wait
\* The time the run took beyond its sleeps of exactly Wait each: the time
\* spent in the attempts plus the overshoot of the sleeps.
Overhead == now - (timer.stop - timer.Timeout) - (calls - 1) * timer.Wait

\* C2 as stated: with a check function that fails abruptly on every
\* attempt, the run gives up after exactly floor(T/W) + 1 invocations.
C2_Original ==
    GaveUpAlwaysAbrupt => calls = Quotient + 1 /\ FailNows(tcalls) = 1

\* C2, amended: such a run gives up (FailNow called once) after at least
\* one and at most floor(T/W) + 2 invocations, and after at least
\* floor(T/W) + 1 when the attempts and the sleeps' overshoot together took
\* no longer than W.
C2_Amended ==
    GaveUpAlwaysAbrupt =>
        /\ calls >= 1
        /\ calls <= Quotient + 2
        /\ (Overhead <= timer.Wait => calls >= Quotient + 1)
        /\ FailNows(tcalls) = 1

C2_Witness ==
    /\ GaveUpAlwaysAbrupt
    /\ f = "fatalf"
    /\ timer.Timeout = TestTimeout /\ timer.Wait = TestWait
    /\ calls = Quotient + 1
    /\ FailNows(tcalls) = 1

\* C3: the reporter is called only when the policy gives up, and then
\* exactly: one Log with the deduplicated log if the log is not empty (none
\* if it is), followed by one FailNow; nothing is added afterwards.
C3_ReportOnce ==
    /\ pc # "GaveUp" => tcalls = <<>>
    /\ pc = "GaveUp" =>
          tcalls = (IF rr.output = <<>> THEN <<>>
                    ELSE <<[op |-> "Log", arg |-> dedup(rr.output)]>>)
                   \o <<[op |-> "FailNow", arg |-> <<>>]>>

C3_Witness ==
    /\ pc = "GaveUp"
    /\ Len(rr.output) = 2
    /\ rr.output[1] = rr.output[2]
    /\ Len(tcalls) = 2
    /\ tcalls[1].op = "Log" /\ tcalls[2].op = "FailNow"

\* An attempt has completed with the fail flag unset.
AttemptPassed == pc = "Wait" /\ g.state = "returned" /\ ~rr.fail

\* C4: once an attempt completes with the fail flag unset the run ends as
\* a success: the next step is to Succeeded, with no further invocation and
\* no reporter call, and nothing happens after Succeeded.
C4_SuccessEndsRun ==
    /\ [](pc = "Succeeded" => tcalls = <<>>)
    /\ [][AttemptPassed =>
            pc' = "Succeeded" /\ calls' = calls /\ tcalls' = <<>>]_vars
    /\ [][pc = "Succeeded" => UNCHANGED vars]_vars

C4_Witness ==
    /\ pc = "Succeeded"
    /\ calls >= 2
    /\ rr.output # <<>>
    /\ now > timer.stop

\* The lines of a in first-seen order, each once, each followed by "\n".
FirstSeen(a) == {i \in 1..Len(a) : \A j \in 1..(i - 1) : a[j] # a[i]}
RECURSIVE JoinFirstSeen(_, _)
JoinFirstSeen(a, i) ==
    IF i > Len(a) THEN <<>>
    ELSE (IF i \in FirstSeen(a) THEN a[i] \o NL ELSE <<>>) \o JoinFirstSeen(a, i + 1)

\* The text given to the reporter's Log ("" when Log was not called).
Logged == IF tcalls # <<>> /\ tcalls[1].op = "Log" THEN tcalls[1].arg ELSE <<>>

\* C5: dedup returns the distinct lines in first-seen order, each once and
\* each followed by a newline; [a,b,a,c,b] gives "a\nb\nc\n" and the empty
\* sequence gives "".
C5_DedupFirstSeen ==
    /\ pc = "GaveUp" => Logged = JoinFirstSeen(rr.output, 1)
    /\ dedup(<<<<"a">>, <<"b">>, <<"a">>, <<"c">>, <<"b">>>>)
           = <<"a", "\n", "b", "\n", "c", "\n">>
    /\ dedup(<<>>) = <<>>

C5_Witness ==
    /\ pc = "GaveUp"
    /\ Len(rr.output) = 5
    /\ rr.output[1] = rr.output[3] /\ rr.output[2] = rr.output[5]
    /\ Cardinality({rr.output[i] : i \in 1..5}) = 3
    /\ Logged = rr.output[1] \o NL \o rr.output[2] \o NL \o rr.output[4] \o NL

\* The last statement the attempt executed is an abrupt failure.
Aborted == g.last \in {"Fatal", "Fatalf", "CheckErr", "FailNow"}

\* C6: after Fatal, Fatalf, Check(err) or FailNow the attempt's unit has
\* ended with the fail flag set and executes nothing more; the controller's
\* wait can return, and its only step clears the flag and goes on to the
\* next policy decision, with no new invocation and no reporter call.
C6_AbruptContained ==
    /\ [](Aborted =>
            /\ g.state = "exited"
            /\ rr.fail
            /\ pc = "Wait" /\ wg = 0
            /\ ENABLED Retry)
    /\ [][Aborted =>
            /\ pc' = "Next"
            /\ g' = NoGoroutine
            /\ rr' = [rr EXCEPT !.fail = FALSE]
            /\ calls' = calls /\ tcalls' = tcalls]_vars

C6_Witness ==
    /\ pc = "Go"
    /\ calls = 1
    /\ ends = {"abort"}
    /\ Len(rr.output) = 1
    /\ ~rr.fail

\* C7: R.Error appends one decorated line and sets the fail flag, and the
\* attempt goes on; when the check function then returns, the attempt
\* counts as failed: the loop clears the flag and retries.
C7_SoftFailure ==
    /\ [](g.last = "Error" => g.state \in {"running", "returned"} /\ rr.fail)
    /\ [][g'.last = "Error" /\ g'.n = g.n + 1 =>
            /\ \E m \in Msgs, c \in Callers :
                   rr'.output = Append(rr.output, decorate(m, c))
            /\ rr'.fail
            /\ g'.state = "running"
            /\ pc' = pc /\ wg' = wg]_vars
    /\ [][g.state = "returned" /\ rr.fail =>
            pc' = "Next" /\ ~rr'.fail /\ tcalls' = tcalls]_vars

C7_Witness ==
    /\ g.state = "returned"
    /\ g.last = "Stmt" /\ g.n = 2
    /\ rr.fail
    /\ calls = 1
    /\ Len(rr.output) = 1

\* C8: the first Timer.Next sets the deadline to now + Timeout and returns
\* true, without waiting and without the give-up callback; so no run gives
\* up before the check function was invoked.
C8_FirstDecision ==
    /\ [][pc = "Next" /\ timer.stop = 0 =>
            /\ timer' = [timer EXCEPT !.stop = now + timer.Timeout]
            /\ pc' = "Go"
            /\ now' = now
            /\ tcalls' = tcalls]_vars
    /\ [](pc = "GaveUp" => calls >= 1)
    /\ [](calls = 0 => tcalls = <<>>)

C8_Witness ==
    /\ pc = "GaveUp"
    /\ timer.Timeout = 0
    /\ calls = 1

\* C9: a Timer.Next after the first, past the deadline, calls the give-up
\* callback once and returns false without waiting; otherwise it waits at
\* least Wait and returns true, without the callback.  The deadline is
\* left as it is.
C9_LaterDecisions ==
    [][pc = "Next" /\ timer.stop # 0 =>
         /\ timer' = timer
         /\ IF now > timer.stop
            THEN /\ FailNows(tcalls') = FailNows(tcalls) + 1
                 /\ pc' = "GaveUp"
                 /\ now' = now
            ELSE /\ tcalls' = tcalls
                 /\ pc' = "Go"
                 /\ now' >= now + timer.Wait]_vars

C9_Witness ==
    /\ pc = "GaveUp"
    /\ calls >= 2
    /\ FailNows(tcalls) = 1
    /\ now > timer.stop + timer.Wait

\* C10: at most one attempt's unit is running, only while the controller
\* is in wg.Wait(); while it runs the controller takes no step: it neither
\* reads or clears the fail flag, nor calls the policy or the reporter,
\* nor starts an attempt.
C10_Sequential ==
    /\ [](/\ wg \in {0, 1}
          /\ (g.state = "running" <=> wg = 1)
          /\ (wg = 1 => pc = "Wait"))
    /\ [][g.state = "running" =>
            /\ pc' = pc /\ timer' = timer
            /\ calls' = calls /\ tcalls' = tcalls
            /\ (rr.fail => rr'.fail)]_vars

C10_Witness ==
    /\ g.state = "running"
    /\ pc = "Wait" /\ wg = 1
    /\ calls >= 2
    /\ g.n >= 1

\* The run has ended.
Done == pc \in {"Succeeded", "GaveUp"}
\* The clock at the first Timer.Next of the run, and the time since.
Start == timer.stop - timer.Timeout
Elapsed == now - Start

\* C11 as stated: a run ends no later than T + W after it started.
C11_Original == Done => Elapsed <= timer.Timeout + timer.Wait

\* C11, amended: a run ends no later than T + W after it started, not
\* counting the time its attempts took and the overshoot of its sleeps; so
\* it ends within T + W when the attempts take no time and the sleeps are
\* exact.
C11_Amended ==
    Done =>
        /\ Elapsed - Overhead <= timer.Timeout + timer.Wait
        /\ (Overhead = 0 => Elapsed <= timer.Timeout + timer.Wait)

C11_Witness ==
    /\ pc = "GaveUp"
    /\ calls >= 2
    /\ Overhead = 0
    /\ Elapsed = timer.Timeout + timer.Wait

\* RunWith with the timers up to MaxTimeout, with the scheduling of the
\* Go runtime: a runnable goroutine runs, time.Sleep returns, and the
\* check function returns or aborts.
InitLive == RunWith /\ timer.Timeout <= MaxTimeout
LiveSpec == InitLive /\ [][Next]_vars /\ WF_vars(Next)

\* C12: every run ends, in Succeeded or in GaveUp; a failed attempt only
\* leads to the next policy decision, and the run is in GaveUp exactly
\* when the reporter's FailNow was called (once).
C12_RunTerminates ==
    /\ <>Done
    /\ [](FailNows(tcalls) = (IF pc = "GaveUp" THEN 1 ELSE 0))
    /\ [][pc = "Wait" /\ rr.fail => pc' \in {"Wait", "Next"}]_vars

C12_Witness ==
    /\ pc = "GaveUp"
    /\ "soft" \in ends
    /\ calls >= 2
    /\ FailNows(tcalls) = 1

\* The state of the loop in the terms of the state machine: the policy
\* decision is pending, or an attempt is being started, running or joined.
Phase ==
    CASE pc = "Next" -> "AwaitingDecision"
      [] pc \in {"Go", "Wait"} -> "RunningAttempt"
      [] OTHER -> pc

\* C13: the loop starts in AwaitingDecision; it changes state only from
\* AwaitingDecision to RunningAttempt (the policy returned true: no reporter
\* call), from RunningAttempt to AwaitingDecision (the attempt is over with
\* the flag set, which is cleared), from RunningAttempt to Succeeded (the
\* attempt is over with the flag unset) and from AwaitingDecision to GaveUp
\* (the reporter's FailNow has been called); nothing happens in Succeeded
\* or GaveUp.
C13_StateMachine ==
    /\ Phase = "AwaitingDecision"
    /\ [][Phase' # Phase =>
            \/ /\ Phase = "AwaitingDecision" /\ Phase' = "RunningAttempt"
               /\ tcalls' = tcalls
            \/ /\ Phase = "RunningAttempt" /\ Phase' = "AwaitingDecision"
               /\ wg = 0 /\ rr.fail /\ ~rr'.fail
            \/ /\ Phase = "RunningAttempt" /\ Phase' = "Succeeded"
               /\ wg = 0 /\ ~rr.fail
            \/ /\ Phase = "AwaitingDecision" /\ Phase' = "GaveUp"
               /\ FailNows(tcalls) = 0 /\ FailNows(tcalls') = 1]_vars
    /\ [][Done => UNCHANGED vars]_vars

C13_Witness ==
    /\ Phase = "GaveUp"
    /\ calls >= 2
    /\ ends = {"abort"}
    /\ rr.output = <<>>

\* This step is a recording call of the running attempt.
RecordingStep ==
    /\ g.state = "running"
    /\ g'.n = g.n + 1
    /\ g'.last \in {"Fatal", "Fatalf", "Error", "CheckErr"}

\* C14: the log only grows at its end: a step that changes the log is a
\* recording call (Fatal, Fatalf, Error, Check with an error) of the
\* running attempt, every recording call appends exactly one line and
\* keeps the lines before it, and the steps of the loop leave the log as
\* it is.
C14_AppendOnly ==
    /\ [][RecordingStep <=> rr'.output # rr.output]_vars
    /\ [][RecordingStep =>
            /\ Len(rr'.output) = Len(rr.output) + 1
            /\ SubSeq(rr'.output, 1, Len(rr.output)) = rr.output]_vars
    /\ [][pc' # pc \/ tcalls' # tcalls => rr'.output = rr.output]_vars

C14_Witness ==
    /\ pc = "GaveUp"
    /\ calls >= 2
    /\ Len(rr.output) = 2
    /\ rr.output[1] # rr.output[2]

\* The attempt has been started and has not executed a statement yet.
AttemptStarts == g.state = "running" /\ g.n = 0

\* C15: the fail flag is unset whenever Timer.Next is called or fails the
\* run, whenever an attempt is about to start or has just started, and
\* when the run has ended, in Succeeded and in GaveUp.
C15_FlagResets ==
    /\ pc \in {"Next", "Go"} => ~rr.fail
    /\ AttemptStarts => ~rr.fail
    /\ Done => ~rr.fail

C15_Witness ==
    /\ AttemptStarts
    /\ calls >= 2
    /\ rr.output # <<>>
    /\ "soft" \in ends

\* This step is the statement `kind` of the running attempt.
StepOf(kind) == g.state = "running" /\ g'.n = g.n + 1 /\ g'.last = kind

\* What a step of r.Fatal(m) at some call site does: one decorated line
\* at the end of the log, the flag set, the goroutine ended there (its
\* deferred wg.Done() included), the controller untouched.
FatalEffect ==
    /\ \E m \in Msgs, c \in Callers :
            rr' = [fail |-> TRUE, output |-> Append(rr.output, decorate(m, c))]
    /\ g'.state = "exited"
    /\ wg' = wg - 1
    /\ UNCHANGED <<now, timer, pc, tcalls, calls>>

\* C16: a Check with an error does what a Fatal with the error's message
\* does, and a Check with nil changes neither the log nor the flag and
\* leaves the attempt running.
C16_CheckAsFatal ==
    /\ [][StepOf("Fatal") => FatalEffect]_vars
    /\ [][StepOf("CheckErr") => FatalEffect]_vars
    /\ [][StepOf("CheckNil") =>
            /\ rr' = rr
            /\ g'.state = "running"
            /\ UNCHANGED <<now, timer, pc, wg, tcalls, calls>>]_vars

C16_Witness ==
    /\ g.last = "CheckErr"
    /\ g.state = "exited"
    /\ g.n = 2
    /\ calls = 1
    /\ rr.fail
    /\ Len(rr.output) = 1

\* A second run() with the Timer of an earlier run of the same caller: the
\* earlier run called Next first at clock 1, so stop is 1 + Timeout, and
\* it ended (by success or by giving up) at any time from then on. A Timer
\* that no run has used yet (stop is zero) is included for comparison.
InitReuse ==
    /\ now \in 1..MaxNow
    /\ rr = [fail |-> FALSE, output |-> <<>>]
    /\ pc = "Next"
    /\ wg = 0
    /\ g = NoGoroutine
    /\ tcalls = <<>>
    /\ calls = 0
    /\ ends = {}
    /\ \E tm \in Timers, used \in BOOLEAN :
          /\ tm.Timeout <= MaxTimeout
          /\ timer = [tm EXCEPT !.stop = IF used THEN 1 + tm.Timeout ELSE 0]
    /\ f \in CheckFns(timer)

SpecReuse == InitReuse /\ [][Next]_vars

\* C17 as stated: the first Timer.Next of a run, also of a second run with
\* the same Timer, sets the deadline to now + Timeout and returns true.
C17_Reuse ==
    [][pc = "Next" /\ calls = 0 /\ pc' # pc =>
          /\ timer'.stop = now + timer.Timeout
          /\ pc' = "Go"
          /\ tcalls' = tcalls]_vars

\* Run() with a check function that failed abruptly every time has given up.
RunGaveUp ==
    /\ GaveUpAlwaysAbrupt
    /\ timer.Timeout = DefaultTimeout
    /\ timer.Wait = DefaultWait

\* C18 as stated: with the policy of Run, a check function that fails
\* abruptly every time is invoked exactly floor(2s / 25ms) = 80 times before
\* the reporter's FailNow is called.
C18_Original == RunGaveUp => calls = Quotient /\ FailNows(tcalls) = 1

\* C18, amended: it is invoked at most floor(2s / 25ms) + 2 = 82 times
\* before the reporter's FailNow is called (once): 82 times when attempts
\* take no time and sleeps are exact, and 80 times only when the attempts
\* and the sleeps' overshoot together took more than 25ms.
C18_Amended ==
    RunGaveUp =>
        /\ calls \in 1..(Quotient + 2)
        /\ (Overhead = 0 => calls = Quotient + 2)
        /\ (calls = Quotient => Overhead > timer.Wait)
        /\ FailNows(tcalls) = 1

C18_Witness ==
    /\ RunGaveUp
    /\ f = "fatalf"
    /\ calls = 80
    /\ Overhead <= 2 * timer.Wait

\* The attempt's goroutine is over: it returned or was ended by Goexit.
Joined == wg = 0 /\ g.state \in {"returned", "exited"}

\* C19: the context changes only by a statement of the running attempt,
\* or by the controller clearing the set flag (and nothing else) once the
\* attempt's goroutine is over; the controller leaves wg.Wait() only then;
\* and the reporter is called, with the log, only at a policy decision,
\* when no attempt runs, leaving the context as it is.
C19_ContextAccess ==
    /\ [][rr' # rr =>
            \/ /\ g.state = "running" /\ g'.n = g.n + 1
               /\ pc = "Wait" /\ pc' = pc
            \/ /\ pc = "Wait" /\ Joined
               /\ rr.fail /\ rr' = [rr EXCEPT !.fail = FALSE]]_vars
    /\ [][pc = "Wait" /\ pc' # pc => Joined]_vars
    /\ [][tcalls' # tcalls =>
            pc = "Next" /\ wg = 0 /\ g.state # "running" /\ rr' = rr]_vars

C19_Witness ==
    /\ pc = "Next"
    /\ g.state = "none"
    /\ calls >= 1
    /\ ends = {"abort"}
    /\ ~rr.fail
    /\ Len(rr.output) = 1

\* Timer.Next returns true after its sleep: the next attempt begins.
SleptStep == pc = "Next" /\ calls >= 1 /\ pc' = "Go"

\* The deadline is looked at only in Timer.Next, before any sleep: the run
\* gives up only at a policy decision, at once, when the deadline has passed.
GiveUpOnlyBeforeWait ==
    [][pc' = "GaveUp" /\ pc # "GaveUp" =>
          pc = "Next" /\ timer.stop # 0 /\ now > timer.stop /\ now' = now]_vars

\* After the first attempt, an attempt begins at least Wait after the
\* previous one ended.
WaitBetweenAttempts == [][SleptStep => now' >= now + timer.Wait]_vars

\* C20 as stated: the deadline is checked only before the wait; every
\* attempt begins no later than deadline + Wait; after the first attempt
\* each attempt begins at least Wait after the previous one ended.
C20_Original ==
    /\ GiveUpOnlyBeforeWait
    /\ [](pc = "Go" => now <= timer.stop + timer.Wait)
    /\ WaitBetweenAttempts

\* C20, amended: the deadline is checked only before the wait; the sleep
\* before an attempt starts no later than the deadline, so the attempt
\* begins no later than deadline + Wait plus the overshoot of that sleep;
\* after the first attempt each attempt begins at least Wait after the
\* previous one ended.
C20_Amended ==
    /\ GiveUpOnlyBeforeWait
    /\ [][SleptStep =>
            /\ now <= timer.stop
            /\ now' <= timer.stop + timer.Wait + (now' - (now + timer.Wait))]_vars
    /\ [](pc = "Go" => now <= timer.stop + timer.Wait + MaxOver)
    /\ WaitBetweenAttempts

C20_Witness ==
    /\ g.state = "running"
    /\ g.n = 0
    /\ calls >= 2
    /\ now > timer.stop
    /\ now <= timer.stop + timer.Wait

====
